---- MODULE Spec2Model ----


(***************************************************************************)
(* Model of the ingest service of the boss repository:                     *)
(* django/bossingest/ingest_manager.py (class IngestManager).              *)
(*                                                                         *)
(* Part 1: the partition of a job's extent into chunks and tiles           *)
(*         (generate_upload_tasks), as operators.                          *)
(* Part 2: the job lifecycle (setup_ingest, delete_ingest_job and a direct *)
(*         generate_upload_tasks call) as a state machine over the job     *)
(*         table, the queues, the tile index, the tile bucket and the      *)
(*         credential store, one step per call the code makes.             *)
(***************************************************************************)
EXTENDS Integers, Sequences, FiniteSets, TLC

(***************************************************************************)
(* Bounds of the model.                                                    *)
(***************************************************************************)
\* number of job ids the job table can hand out
MaxJobs == 2
\* number of request slots of the IngestManager instance (Spec serves the
\* requests one at a time)
NumProcs == 2
\* number of direct generate_upload_tasks calls
MaxGenerates == 1
\* number of calls to collaborators (queues, stores, database) that fail
MaxFaults == 1
\* partition inputs: whole tile strides per x / y axis
MaxStrides == 2
\* partition inputs: whole chunks per z range
MaxChunks == 2
\* partition inputs: number of time steps
MaxTimeSteps == 2

(***************************************************************************)
(* Program constants.                                                      *)
(***************************************************************************)
\* range(z_start, z_stop, 16), int(z/16), z_stop-z >= 16, num_of_tiles = 16
ChunkDepth == 16
\* self.job.status = 1
STATUS_ACTIVE == 1
\* ingest_job.status = 3
STATUS_DELETED == 3
\* status of a row as created by IngestJobCreateSerializer.save()
STATUS_CREATED == 0

(***************************************************************************)
(* Part 1.  generate_upload_tasks: the partition.                          *)
(***************************************************************************)

\* a mutant of PyRange: the stop value is included
PyRange_inclusive(start, stop, step) ==
    LET n == IF stop < start THEN 0 ELSE ((stop - start) \div step) + 1
    IN  [i \in 1..n |-> start + (i - 1) * step]

\* Python's range(start, stop, step), step > 0, as a sequence
PyRange(start, stop, step) ==
    LET n == IF stop <= start THEN 0 ELSE ((stop - start) + step - 1) \div step
    IN  [i \in 1..n |-> start + (i - 1) * step]

\* a mutant of PyIntDiv: floor division
PyIntDiv_floor(a, b) ==
    a \div b

\* Python's int(a/b), b > 0: true division, then truncation toward zero
PyIntDiv(a, b) ==
    IF a >= 0 THEN a \div b ELSE -((-a) \div b)

\* a mutant of NumOfTiles: every chunk is taken to be full
NumOfTiles_full(job, z) ==
    ChunkDepth

\* a mutant of NumOfTiles: the depth of a chunk is the job's tile_size_z
NumOfTiles_tile_size_z(job, z) ==
    IF job.z_stop - z >= job.tile_size_z THEN job.tile_size_z ELSE job.z_stop - z

\* lines 335-338: the number of tiles in the chunk starting at plane z
NumOfTiles(job, z) ==
    IF job.z_stop - z >= ChunkDepth THEN ChunkDepth ELSE job.z_stop - z

\* BossBackend.encode_chunk_key: a deterministic, collision-free function of
\* its arguments
encode_chunk_key(num_of_tiles, project_info, resolution, chunk_x, chunk_y, chunk_z, time_step) ==
    <<num_of_tiles, project_info, resolution, chunk_x, chunk_y, chunk_z, time_step>>

\* BossBackend.encode_tile_key: a deterministic, collision-free function of
\* its arguments
encode_tile_key(project_info, resolution, chunk_x, chunk_y, tile, time_step) ==
    <<project_info, resolution, chunk_x, chunk_y, tile, time_step>>

\* a mutant of ChunkSteps: the loops are nested the other way round, x
\* outermost and time_step innermost
ChunkSteps_x_outermost(job) ==
    LET T == PyRange(job.t_start, job.t_stop, 1)
        Z == PyRange(job.z_start, job.z_stop, ChunkDepth)
        Y == PyRange(job.y_start, job.y_stop, job.tile_size_y)
        X == PyRange(job.x_start, job.x_stop, job.tile_size_x)
        nT == Len(T)
        nZ == Len(Z)
        nY == Len(Y)
        nX == Len(X)
    IN  [i \in 1..(nT * nZ * nY * nX) |->
            [time_step |-> T[((i - 1) % nT) + 1],
             z         |-> Z[(((i - 1) \div nT) % nZ) + 1],
             y         |-> Y[(((i - 1) \div (nT * nZ)) % nY) + 1],
             x         |-> X[((i - 1) \div (nT * nZ * nY)) + 1]]]

\* the (time_step, z, y, x) iteration steps of the four nested loops, in order
ChunkSteps(job) ==
    LET T == PyRange(job.t_start, job.t_stop, 1)
        Z == PyRange(job.z_start, job.z_stop, ChunkDepth)
        Y == PyRange(job.y_start, job.y_stop, job.tile_size_y)
        X == PyRange(job.x_start, job.x_stop, job.tile_size_x)
        nT == Len(T)
        nZ == Len(Z)
        nY == Len(Y)
        nX == Len(X)
    IN  [i \in 1..(nT * nZ * nY * nX) |->
            [time_step |-> T[((i - 1) \div (nZ * nY * nX)) + 1],
             z         |-> Z[(((i - 1) \div (nY * nX)) % nZ) + 1],
             y         |-> Y[(((i - 1) \div nX) % nY) + 1],
             x         |-> X[((i - 1) % nX) + 1]]]

\* the body of the x loop for one iteration step: the tasks of one chunk
ChunkTasks(job, project_info, s) ==
    LET chunk_x == PyIntDiv(s.x, job.tile_size_x)
        chunk_y == PyIntDiv(s.y, job.tile_size_y)
        chunk_z == PyIntDiv(s.z, ChunkDepth)
        num_of_tiles == NumOfTiles(job, s.z)
        chunk_key == encode_chunk_key(num_of_tiles, project_info, job.resolution,
                                      chunk_x, chunk_y, chunk_z, s.time_step)
    IN  [k \in 1..num_of_tiles |->
            [time_step    |-> s.time_step,
             z            |-> s.z,
             y            |-> s.y,
             x            |-> s.x,
             chunk_x      |-> chunk_x,
             chunk_y      |-> chunk_y,
             chunk_z      |-> chunk_z,
             num_of_tiles |-> num_of_tiles,
             tile         |-> k - 1,
             chunk_key    |-> chunk_key,
             tile_key     |-> encode_tile_key(project_info, job.resolution,
                                              chunk_x, chunk_y, k - 1, s.time_step)]]

RECURSIVE ConcatFrom(_, _)
\* the concatenation of the sequences ss[i], ss[i+1], ...
ConcatFrom(ss, i) ==
    IF i > Len(ss) THEN <<>> ELSE ss[i] \o ConcatFrom(ss, i + 1)

\* the tasks generate_upload_tasks emits for a job, in the order it emits them
UploadTasks(job, project_info) ==
    LET steps == ChunkSteps(job)
    IN  ConcatFrom([i \in 1..Len(steps) |-> ChunkTasks(job, project_info, steps[i])], 1)

(***************************************************************************)
(* Part 2.  The job lifecycle.                                             *)
(***************************************************************************)
VARIABLES
    jobs,       \* the IngestJob table: job id -> persisted row
    nextId,     \* the id the table gives to the next row
    upq,        \* upload queues, by the job id of the project they are named after
    inq,        \* ingest queues, by the job id of the project they are named after
    policies,   \* access policies created by BossUtil.generate_ingest_policy
    creds,      \* credentials created by IngestCredentials.generate_credentials
    tileindex,  \* chunk entries of the tile index (BossTileIndexDB)
    bucket,     \* tile objects of the tile bucket (TileBucket)
    faults,     \* number of failures of collaborators so far
    gens,       \* number of direct generate_upload_tasks calls made
    mgr,        \* the fields of the IngestManager instance (self.*)
    memjob,     \* the in-memory IngestJob objects made by create_ingest_job
    pc,         \* each request's position in its method
    kind,       \* each request's method
    arg,        \* each request's argument (config_data or a job id)
    loc,        \* each request's local variables
    res,        \* each request's outcome: "ok" or the error raised
    ret,        \* each request's return value (a job id)
    pre,        \* the shared state and the number of failures when the request began
    hist,       \* history: the job ids whose deletion has started
    pjob,       \* partition check: the job whose extent is partitioned
    ptasks,     \* partition check: the tasks generate_upload_tasks emitted
    ppc         \* partition check: position

vars == <<faults, jobs, nextId, upq, inq, policies, creds, tileindex, bucket, gens,
          mgr, memjob, pc, kind, arg, loc, res, ret, pre, hist, pjob, ptasks, ppc>>

shared == <<jobs, nextId, upq, inq, policies, creds, tileindex, bucket>>
partvars == <<pjob, ptasks, ppc>>

JobIds == 1..MaxJobs
Procs == 1..NumProcs

\* the job fields generate_upload_tasks reads, as create_ingest_job fills them
Geo(xa, xb, ya, yb, za, zb, ta, tb, sx, sy) ==
    [x_start |-> xa, x_stop |-> xb, y_start |-> ya, y_stop |-> yb,
     z_start |-> za, z_stop |-> zb, t_start |-> ta, t_stop |-> tb,
     tile_size_x |-> sx, tile_size_y |-> sy, tile_size_z |-> ChunkDepth, tile_size_t |-> 1,
     resolution |-> 0]

\* the collection / experiment / channel the resource registry knows
Registry == {<<"col1", "exp1", "ch1">>}
NoKey == <<"", "", "">>

\* the extents of the valid configs submitted in the lifecycle model, with tile
\* size 1: x[0,2) y[0,1) z[0,1) t[0,1), two chunks of one tile, and
\* x[0,1) y[0,1) z[16,17) t[0,1), one chunk of one tile above the first
LifecycleGeos == {Geo(0, 2, 0, 1, 0, 1, 0, 1, 1, 1), Geo(0, 1, 0, 1, 16, 17, 0, 1, 1, 1)}

\* the config documents submitted to setup_ingest: one the schema rejects, one
\* each whose collection, experiment or channel the registry does not know,
\* and one valid config
Configs ==
    {[schema_ok |-> FALSE, database |-> <<"col1", "exp1", "ch1">>,
      geo |-> Geo(0, 2, 0, 1, 0, 1, 0, 1, 1, 1)]}
    \cup {[schema_ok |-> TRUE, database |-> d, geo |-> g] :
            d \in {<<"colX", "exp1", "ch1">>, <<"col1", "expX", "ch1">>,
                   <<"col1", "exp1", "chX">>, <<"col1", "exp1", "ch1">>},
            g \in LifecycleGeos}

\* error codes of bosscore.error.ErrorCodes carried by a BossError
BossErrorCodes == {"UNABLE_TO_VALIDATE", "RESOURCE_NOT_FOUND", "SERIALIZATION_ERROR",
                   "BOSS_SYSTEM_ERROR", "OBJECT_NOT_FOUND"}

\* queue references (queue.url); None is NoQueue
UploadUrl(j) == <<"upload", j>>
IngestUrl(j) == <<"ingest", j>>
NoQueue == <<"none", 0>>

NoRow == [exists |-> FALSE, status |-> 0 - 1, upload_queue |-> NoQueue, ingest_queue |-> NoQueue,
          bosskey |-> NoKey, geo |-> Geo(0, 0, 0, 0, 0, 0, 0, 0, 1, 1)]
NoObj == [status |-> 0 - 1, upload_queue |-> NoQueue, ingest_queue |-> NoQueue]
NoQ == [exists |-> FALSE, msgs |-> <<>>]
NoLoc == [ij |-> [id |-> 0, byref |-> FALSE, status |-> 0 - 1,
                  upload_queue |-> NoQueue, ingest_queue |-> NoQueue],
          i |-> 0, upload_queue |-> 0, policy |-> 0, chunks |-> {}, cur |-> <<>>, keys |-> {}]
NoArg == [job_id |-> 0, config |-> <<>>]

\* IngestManager.__init__
NewMgr == [owner |-> "", config |-> <<>>, collection |-> "", experiment |-> "",
           channel_layer |-> "", resolution |-> 0, job |-> 0, nd_proj |-> 0]

\* the tile bucket / tile index namespace of a job: collection + '&' + experiment
Namespace(bosskey) == <<bosskey[1], bosskey[2]>>

\* LookUpKey.get_lookup_key(bosskey).lookup_key split into [col_id, exp_id, ch_id]
ProjectInfo(bosskey) == bosskey

\* the job table, the queues with their messages, the policies and the credentials
Snapshot == [jobs |-> jobs, upq |-> upq, inq |-> inq, policies |-> policies, creds |-> creds]

\* the chunk entries of the tile index and the objects of the tile bucket
TileState == [tileindex |-> tileindex, bucket |-> bucket]

InitLifecycle ==
    /\ jobs = [j \in JobIds |-> NoRow]
    /\ nextId = 1
    /\ upq = [j \in JobIds |-> NoQ]
    /\ inq = [j \in JobIds |-> FALSE]
    /\ policies = {}
    /\ creds = {}
    /\ tileindex = {}
    /\ bucket = {}
    /\ gens = 0
    /\ faults = 0
    /\ mgr = NewMgr
    /\ memjob = [j \in JobIds |-> NoObj]
    /\ pc = [p \in Procs |-> "idle"]
    /\ kind = [p \in Procs |-> "none"]
    /\ arg = [p \in Procs |-> NoArg]
    /\ loc = [p \in Procs |-> NoLoc]
    /\ res = [p \in Procs |-> "none"]
    /\ ret = [p \in Procs |-> 0]
    /\ pre = [p \in Procs |-> <<>>]
    /\ hist = [deleting |-> {}]

NoPartJob == Geo(0, 0, 0, 0, 0, 0, 0, 0, 1, 1)

Init ==
    /\ InitLifecycle
    /\ pjob = NoPartJob
    /\ ptasks = <<>>
    /\ ppc = "off"

(***************************************************************************)
(* Helpers of the steps.                                                   *)
(***************************************************************************)

\* a mutant of setup_except: every error becomes a system error
setup_except_collapse(exc) ==
    "BOSS_SYSTEM_ERROR"

\* a mutant of setup_except: the exception leaves setup_ingest as it was raised
setup_except_passthrough(exc) ==
    exc

\* setup_ingest's except clauses: a BossError keeps its code, anything else
\* becomes BOSS_SYSTEM_ERROR
setup_except(exc) ==
    IF exc \in BossErrorCodes THEN exc ELSE "BOSS_SYSTEM_ERROR"

\* a mutant of delete_except: IngestJob.DoesNotExist is caught by its own clause
delete_except_not_found(exc) ==
    IF exc = "DoesNotExist" THEN "OBJECT_NOT_FOUND" ELSE "BOSS_SYSTEM_ERROR"

\* delete_ingest_job's except clauses: `except Exception` comes first and
\* catches everything, IngestJob.DoesNotExist included
delete_except(exc) ==
    "BOSS_SYSTEM_ERROR"

\* what the caller of request p sees when exc is raised inside its method
Raised(p, exc) ==
    CASE kind[p] = "setup" -> setup_except(exc)
      [] kind[p] = "delete" -> delete_except(exc)
      [] OTHER -> exc

\* request p ends with the error exc, raised by the code itself
Fail(p, exc) ==
    /\ pc' = [pc EXCEPT ![p] = "done"]
    /\ res' = [res EXCEPT ![p] = Raised(p, exc)]
    /\ ret' = [ret EXCEPT ![p] = 0]
    /\ UNCHANGED faults

\* a mutant of Fault: the call that fails is made again, the request stays
\* where it is
Fault_retry(p, exc) ==
    /\ faults < MaxFaults
    /\ faults' = faults + 1
    /\ UNCHANGED <<pc, res, ret>>

\* request p ends with the error exc, raised by a collaborator's call that fails
Fault(p, exc) ==
    /\ faults < MaxFaults
    /\ faults' = faults + 1
    /\ pc' = [pc EXCEPT ![p] = "done"]
    /\ res' = [res EXCEPT ![p] = Raised(p, exc)]
    /\ ret' = [ret EXCEPT ![p] = 0]

\* request p moves on to position next
Goto(p, next) ==
    /\ pc' = [pc EXCEPT ![p] = next]
    /\ UNCHANGED <<res, ret, faults>>

\* request p returns the value v
Return(p, v) ==
    /\ pc' = [pc EXCEPT ![p] = "done"]
    /\ res' = [res EXCEPT ![p] = "ok"]
    /\ ret' = [ret EXCEPT ![p] = v]
    /\ UNCHANGED faults

\* no request is open on the manager
Quiet == \A q \in Procs : pc[q] = "idle"

\* requests are served one at a time: the next one is taken when no request
\* is open, by the first slot
Serial(p) == Quiet /\ p = 1

\* setup requests that have not created their job row yet
PendingCreates == {q \in Procs : kind[q] = "setup" /\ pc[q] \in {"su_validate", "su_props", "su_create"}}

(***************************************************************************)
(* setup_ingest                                                            *)
(***************************************************************************)

\* line 122: self.owner = creator
BeginSetup(p, config_data) ==
    /\ pc[p] = "idle"
    /\ (nextId - 1) + Cardinality(PendingCreates) < MaxJobs
    /\ kind' = [kind EXCEPT ![p] = "setup"]
    /\ arg' = [arg EXCEPT ![p] = [job_id |-> 0, config |-> <<config_data>>]]
    /\ pre' = [pre EXCEPT ![p] = <<Snapshot, faults>>]
    /\ mgr' = [mgr EXCEPT !.owner = "creator"]
    /\ Goto(p, "su_validate")
    /\ UNCHANGED <<shared, gens, memjob, loc, hist, partvars>>

\* validate_config_file(config_data)
validate_config_file(p) ==
    /\ pc[p] = "su_validate"
    /\ mgr' = [mgr EXCEPT !.config = arg[p].config]
    /\ IF arg[p].config[1].schema_ok
         THEN Goto(p, "su_props")
         ELSE Fail(p, "UNABLE_TO_VALIDATE")
    /\ UNCHANGED <<shared, gens, memjob, kind, arg, loc, pre, hist, partvars>>

\* a mutant of validate_properties: the job row is created before the names
\* of the config are resolved
validate_properties_after_create(p) ==
    /\ pc[p] = "su_props"
    /\ jobs' = [jobs EXCEPT ![nextId] =
                   [NoRow EXCEPT !.exists = TRUE, !.status = STATUS_CREATED,
                                 !.bosskey = mgr.config[1].database,
                                 !.geo = mgr.config[1].geo]]
    /\ nextId' = nextId + 1
    /\ IF mgr.config[1].database \in Registry
         THEN Goto(p, "su_create")
         ELSE Fail(p, "RESOURCE_NOT_FOUND")
    /\ UNCHANGED <<upq, inq, policies, creds, tileindex, bucket, gens, mgr, memjob,
                   kind, arg, loc, pre, hist, partvars>>

\* validate_properties(): resolves the names of self.config
validate_properties(p) ==
    /\ pc[p] = "su_props"
    /\ LET d == mgr.config[1].database
           col_ok == \E k \in Registry : k[1] = d[1]
           exp_ok == \E k \in Registry : k[1] = d[1] /\ k[2] = d[2]
           ch_ok == d \in Registry
       IN  /\ mgr' = [mgr EXCEPT !.collection = IF col_ok THEN d[1] ELSE @,
                                 !.experiment = IF exp_ok THEN d[2] ELSE @,
                                 !.channel_layer = IF ch_ok THEN d[3] ELSE @,
                                 !.resolution = IF ch_ok THEN 0 ELSE @]
           /\ IF ch_ok THEN Goto(p, "su_create") ELSE Fail(p, "RESOURCE_NOT_FOUND")
    /\ UNCHANGED <<shared, gens, memjob, kind, arg, loc, pre, hist, partvars>>

\* a mutant of NewJobRow: the row is created with status Active
NewJobRow_active(m) ==
    [exists |-> TRUE, status |-> STATUS_ACTIVE,
     upload_queue |-> NoQueue, ingest_queue |-> NoQueue,
     bosskey |-> <<m.collection, m.experiment, m.channel_layer>>,
     geo |-> [m.config[1].geo EXCEPT !.resolution = m.resolution]]

\* a mutant of NewJobRow: the row is not saved
NewJobRow_unsaved(m) ==
    NoRow

\* the row create_ingest_job saves, from the fields of the manager
NewJobRow(m) ==
    [exists |-> TRUE, status |-> STATUS_CREATED,
     upload_queue |-> NoQueue, ingest_queue |-> NoQueue,
     bosskey |-> <<m.collection, m.experiment, m.channel_layer>>,
     geo |-> [m.config[1].geo EXCEPT !.resolution = m.resolution]]

\* line 128: self.job = self.create_ingest_job()
create_ingest_job(p) ==
    /\ pc[p] = "su_create"
    /\ \/ /\ jobs' = [jobs EXCEPT ![nextId] = NewJobRow(mgr)]
          /\ memjob' = [memjob EXCEPT ![nextId] =
                           [status |-> STATUS_CREATED, upload_queue |-> NoQueue,
                            ingest_queue |-> NoQueue]]
          /\ nextId' = nextId + 1
          /\ mgr' = [mgr EXCEPT !.job = nextId]
          /\ Goto(p, "su_proj")
       \/ /\ Fault(p, "SERIALIZATION_ERROR")
          /\ UNCHANGED <<jobs, memjob, nextId, mgr>>
    /\ UNCHANGED <<upq, inq, policies, creds, tileindex, bucket, gens,
                   kind, arg, loc, pre, hist, partvars>>

\* lines 132-134: self.nd_proj = proj_class(..., self.job.id)
setup_nd_proj(p) ==
    /\ pc[p] = "su_proj"
    /\ mgr' = [mgr EXCEPT !.nd_proj = mgr.job]
    /\ Goto(p, "su_upq")
    /\ UNCHANGED <<shared, gens, memjob, kind, arg, loc, pre, hist, partvars>>

\* lines 137-138: upload_queue = self.create_upload_queue();
\*                self.job.upload_queue = upload_queue.url
create_upload_queue(p) ==
    /\ pc[p] = "su_upq"
    /\ \/ /\ upq' = [upq EXCEPT ![mgr.nd_proj].exists = TRUE]
          /\ loc' = [loc EXCEPT ![p].upload_queue = mgr.nd_proj]
          /\ memjob' = [memjob EXCEPT ![mgr.job].upload_queue = UploadUrl(mgr.nd_proj)]
          /\ Goto(p, "su_inq")
       \/ /\ Fault(p, "Exception")
          /\ UNCHANGED <<upq, loc, memjob>>
    /\ UNCHANGED <<jobs, nextId, inq, policies, creds, tileindex, bucket, gens,
                   mgr, kind, arg, pre, hist, partvars>>

\* lines 141-142: ingest_queue = self.create_ingest_queue();
\*                self.job.ingest_queue = ingest_queue.url
create_ingest_queue(p) ==
    /\ pc[p] = "su_inq"
    /\ \/ /\ inq' = [inq EXCEPT ![mgr.nd_proj] = TRUE]
          /\ memjob' = [memjob EXCEPT ![mgr.job].ingest_queue = IngestUrl(mgr.nd_proj)]
          /\ Goto(p, "gen_begin")
       \/ /\ Fault(p, "Exception")
          /\ UNCHANGED <<inq, memjob>>
    /\ UNCHANGED <<jobs, nextId, upq, policies, creds, tileindex, bucket, gens,
                   mgr, kind, arg, loc, pre, hist, partvars>>

(***************************************************************************)
(* generate_upload_tasks and the publication of its tasks                  *)
(***************************************************************************)

\* the tasks of the job with id j, from its persisted extent and tile size
TasksOf(j) == UploadTasks(jobs[j].geo, ProjectInfo(jobs[j].bosskey))

\* a mutant of LoadJob: the copy comes without the queue references
LoadJob_norefs(j) ==
    [id |-> j, byref |-> FALSE, status |-> jobs[j].status,
     upload_queue |-> NoQueue, ingest_queue |-> NoQueue]

\* the in-memory copy IngestJob.objects.get(id=j) returns
LoadJob(j) ==
    [id |-> j, byref |-> FALSE, status |-> jobs[j].status,
     upload_queue |-> jobs[j].upload_queue, ingest_queue |-> jobs[j].ingest_queue]

\* a mutant of JobObject: the fields are read from the persisted row
JobObject_persisted(p) ==
    LoadJob(loc[p].ij.id)

\* the upload_queue / ingest_queue fields of request p's ingest_job object
JobObject(p) ==
    IF loc[p].ij.byref THEN memjob[loc[p].ij.id] ELSE loc[p].ij

\* create_upload_task_message: the document that is serialized
create_upload_task_message(job_id, chunk_key, tile_key, upload_queue_arn, ingest_queue_arn) ==
    [job_id |-> job_id, chunk_key |-> chunk_key, tile_key |-> tile_key,
     upload_queue_arn |-> upload_queue_arn, ingest_queue_arn |-> ingest_queue_arn]

\* send_upload_task_message: the queue UploadQueue(self.nd_proj) names
SendTarget(m) == m.nd_proj

\* a mutant of GenerateDone: setup_ingest goes from the last task straight to
\* the final save, without creating the credentials
GenerateDone_to_save(p) ==
    IF kind[p] = "setup" THEN Goto(p, "su_save") ELSE Return(p, 0)

\* generate_upload_tasks has emitted its last task
GenerateDone(p) ==
    IF kind[p] = "setup" THEN Goto(p, "su_policy") ELSE Return(p, 0)

\* lines 303-320: choose the job object and look up the project
\* (job_id None is 0 here)
generate_begin(p) ==
    /\ pc[p] = "gen_begin"
    /\ IF arg[p].job_id = 0 /\ mgr.job = 0
         THEN Fail(p, "UNABLE_TO_VALIDATE") /\ UNCHANGED loc
       ELSE IF arg[p].job_id # 0 /\ ~jobs[arg[p].job_id].exists
         THEN Fail(p, "RESOURCE_NOT_FOUND") /\ UNCHANGED loc
       ELSE LET ij == IF arg[p].job_id # 0
                        THEN LoadJob(arg[p].job_id)
                        ELSE [NoLoc.ij EXCEPT !.id = mgr.job, !.byref = TRUE]
            IN  \/ /\ loc' = [loc EXCEPT ![p].ij = ij, ![p].i = 1]
                   /\ IF Len(TasksOf(ij.id)) = 0
                        THEN GenerateDone(p)
                        ELSE Goto(p, "gen_publish")
                \/ Fault(p, "Exception") /\ UNCHANGED loc
    /\ UNCHANGED <<shared, gens, mgr, memjob, kind, arg, pre, hist, partvars>>

\* lines 350-355: one pass of the innermost loop: build the message of the
\* next task and send it
publish_task(p) ==
    /\ pc[p] = "gen_publish"
    /\ LET tasks == TasksOf(loc[p].ij.id)
           t == tasks[loc[p].i]
           o == JobObject(p)
           msg == create_upload_task_message(loc[p].ij.id, t.chunk_key, t.tile_key,
                                             o.upload_queue, o.ingest_queue)
           q == SendTarget(mgr)
       IN  IF q = 0 \/ ~upq[q].exists
             THEN Fail(p, "Exception") /\ UNCHANGED <<upq, loc>>
             ELSE \/ /\ upq' = [upq EXCEPT ![q].msgs = Append(@, msg)]
                     /\ loc' = [loc EXCEPT ![p].i = @ + 1]
                     /\ IF loc[p].i = Len(tasks)
                          THEN GenerateDone(p)
                          ELSE Goto(p, "gen_publish")
                  \/ /\ Fault(p, "Exception")
                     /\ UNCHANGED <<upq, loc>>
    /\ UNCHANGED <<jobs, nextId, inq, policies, creds, tileindex, bucket, gens,
                   mgr, memjob, kind, arg, pre, hist, partvars>>

\* a direct call generate_upload_tasks(job_id); job_id 0 stands for None
BeginGenerate(p, job_id) ==
    /\ pc[p] = "idle"
    /\ gens < MaxGenerates
    /\ gens' = gens + 1
    /\ kind' = [kind EXCEPT ![p] = "generate"]
    /\ arg' = [arg EXCEPT ![p] = [job_id |-> job_id, config |-> <<>>]]
    /\ pre' = [pre EXCEPT ![p] = <<Snapshot, faults>>]
    /\ Goto(p, "gen_begin")
    /\ UNCHANGED <<shared, mgr, memjob, loc, hist, partvars>>

(***************************************************************************)
(* setup_ingest, continued                                                 *)
(***************************************************************************)

\* lines 145, 426: tile_bucket = TileBucket(...);
\*                 policy = BossUtil.generate_ingest_policy(self.job.id, upload_queue, tile_bucket)
generate_ingest_policy(p) ==
    /\ pc[p] = "su_policy"
    /\ \/ /\ policies' = {x \in policies : x.job_id # mgr.job} \cup
                         {[job_id |-> mgr.job, queue |-> loc[p].upload_queue,
                           bucket |-> Namespace(jobs[mgr.job].bosskey)]}
          /\ loc' = [loc EXCEPT ![p].policy = mgr.job]
          /\ Goto(p, "su_creds")
       \/ /\ Fault(p, "Exception")
          /\ UNCHANGED <<policies, loc>>
    /\ UNCHANGED <<jobs, nextId, upq, inq, creds, tileindex, bucket, gens,
                   mgr, memjob, kind, arg, pre, hist, partvars>>

\* line 427: ingest_creds.generate_credentials(self.job.id, policy.arn)
generate_credentials(p) ==
    /\ pc[p] = "su_creds"
    /\ \/ /\ creds' = {x \in creds : x.job_id # mgr.job} \cup
                      {[job_id |-> mgr.job, policy |-> loc[p].policy]}
          /\ Goto(p, "su_save")
       \/ /\ Fault(p, "Exception")
          /\ UNCHANGED creds
    /\ UNCHANGED <<jobs, nextId, upq, inq, policies, tileindex, bucket, gens,
                   mgr, memjob, kind, arg, loc, pre, hist, partvars>>

\* a mutant of SavedRow: the status is not written
SavedRow_keep_status(row, obj) ==
    [row EXCEPT !.exists = TRUE,
                !.upload_queue = obj.upload_queue, !.ingest_queue = obj.ingest_queue]

\* the row after save() of the object obj: every field of the object is written
SavedRow(row, obj) ==
    [row EXCEPT !.exists = TRUE, !.status = obj.status,
                !.upload_queue = obj.upload_queue, !.ingest_queue = obj.ingest_queue]

\* a mutant of MarkActive: the status is left as it was
MarkActive_not(obj) ==
    obj

\* line 150: self.job.status = 1
MarkActive(obj) ==
    [obj EXCEPT !.status = STATUS_ACTIVE]

\* lines 150-151, 160: self.job.status = 1; self.job.save(); return self.job
setup_save(p) ==
    /\ pc[p] = "su_save"
    /\ memjob' = [memjob EXCEPT ![mgr.job] = MarkActive(@)]
    /\ \/ /\ jobs' = [jobs EXCEPT ![mgr.job] = SavedRow(@, memjob'[mgr.job])]
          /\ Return(p, mgr.job)
       \/ /\ Fault(p, "Exception")
          /\ UNCHANGED jobs
    /\ UNCHANGED <<nextId, upq, inq, policies, creds, tileindex, bucket, gens,
                   mgr, kind, arg, loc, pre, hist, partvars>>

(***************************************************************************)
(* delete_ingest_job                                                       *)
(***************************************************************************)

BeginDelete(p, ingest_job_id) ==
    /\ pc[p] = "idle"
    /\ kind' = [kind EXCEPT ![p] = "delete"]
    /\ arg' = [arg EXCEPT ![p] = [job_id |-> ingest_job_id, config |-> <<>>]]
    /\ pre' = [pre EXCEPT ![p] = <<Snapshot, faults, TileState>>]
    /\ Goto(p, "de_load")
    /\ UNCHANGED <<shared, gens, mgr, memjob, loc, hist, partvars>>

\* a mutant of delete_load: a job that is already Deleted is refused
delete_load_once(p) ==
    /\ pc[p] = "de_load"
    /\ IF jobs[arg[p].job_id].exists /\ jobs[arg[p].job_id].status # STATUS_DELETED
         THEN /\ loc' = [loc EXCEPT ![p].ij = LoadJob(arg[p].job_id)]
              /\ mgr' = [mgr EXCEPT !.nd_proj = arg[p].job_id]
              /\ hist' = [hist EXCEPT !.deleting = @ \cup {arg[p].job_id}]
              /\ Goto(p, "de_upq")
         ELSE /\ Fail(p, "DoesNotExist")
              /\ UNCHANGED <<loc, mgr, hist>>
    /\ UNCHANGED <<shared, gens, memjob, kind, arg, pre, partvars>>

\* a mutant of delete_load: after loading the job, delete_ingest_job removes
\* the credentials first
delete_load_to_creds(p) ==
    /\ pc[p] = "de_load"
    /\ IF jobs[arg[p].job_id].exists
         THEN /\ loc' = [loc EXCEPT ![p].ij = LoadJob(arg[p].job_id)]
              /\ mgr' = [mgr EXCEPT !.nd_proj = arg[p].job_id]
              /\ hist' = [hist EXCEPT !.deleting = @ \cup {arg[p].job_id}]
              /\ Goto(p, "de_creds")
         ELSE /\ Fail(p, "DoesNotExist")
              /\ UNCHANGED <<loc, mgr, hist>>
    /\ UNCHANGED <<shared, gens, memjob, kind, arg, pre, partvars>>

\* lines 225-228: ingest_job = IngestJob.objects.get(id=ingest_job_id);
\*                self.nd_proj = proj_class(..., ingest_job.id)
delete_load(p) ==
    /\ pc[p] = "de_load"
    /\ IF jobs[arg[p].job_id].exists
         THEN /\ loc' = [loc EXCEPT ![p].ij = LoadJob(arg[p].job_id)]
              /\ mgr' = [mgr EXCEPT !.nd_proj = arg[p].job_id]
              /\ hist' = [hist EXCEPT !.deleting = @ \cup {arg[p].job_id}]
              /\ Goto(p, "de_upq")
         ELSE /\ Fail(p, "DoesNotExist")
              /\ UNCHANGED <<loc, mgr, hist>>
    /\ UNCHANGED <<shared, gens, memjob, kind, arg, pre, partvars>>

\* line 231: self.delete_upload_queue()
delete_upload_queue(p) ==
    /\ pc[p] = "de_upq"
    /\ \/ /\ mgr.nd_proj # 0
          /\ upq' = [upq EXCEPT ![mgr.nd_proj] = NoQ]
          /\ Goto(p, "de_inq")
       \/ /\ Fault(p, "Exception")
          /\ UNCHANGED upq
    /\ UNCHANGED <<jobs, nextId, inq, policies, creds, tileindex, bucket, gens,
                   mgr, memjob, kind, arg, loc, pre, hist, partvars>>

\* line 232: self.delete_ingest_queue()
delete_ingest_queue(p) ==
    /\ pc[p] = "de_inq"
    /\ \/ /\ mgr.nd_proj # 0
          /\ inq' = [inq EXCEPT ![mgr.nd_proj] = FALSE]
          /\ Goto(p, "de_list")
       \/ /\ Fault(p, "Exception")
          /\ UNCHANGED inq
    /\ UNCHANGED <<jobs, nextId, upq, policies, creds, tileindex, bucket, gens,
                   mgr, memjob, kind, arg, loc, pre, hist, partvars>>

\* the chunk entries tiledb.getTaskItems(job id) lists
TaskItems(j) ==
    {e \in tileindex : e.ns = Namespace(jobs[j].bosskey) /\ e.task_id = j}

\* a mutant of TakeChunk: the tile objects of the chunk are skipped, its entry
\* is deleted at once
TakeChunk_entry_first(p, c, rest) ==
    loc' = [loc EXCEPT ![p].chunks = rest, ![p].cur = <<c>>, ![p].keys = {}]

\* request p's delete_tiles turns to the chunk c, the chunks `rest` remaining
TakeChunk(p, c, rest) ==
    loc' = [loc EXCEPT ![p].chunks = rest, ![p].cur = <<c>>, ![p].keys = c.tiles]

\* lines 402-404: chunks = list(tiledb.getTaskItems(ingest_job.id))
list_chunks(p) ==
    /\ pc[p] = "de_list"
    /\ \/ LET chunks == TaskItems(loc[p].ij.id)
          IN  IF chunks = {}
                THEN Goto(p, "de_save") /\ UNCHANGED loc
                ELSE /\ \E c \in chunks : TakeChunk(p, c, chunks \ {c})
                     /\ Goto(p, "de_tiles")
       \/ /\ Fault(p, "BOSS_SYSTEM_ERROR")
          /\ UNCHANGED loc
    /\ UNCHANGED <<shared, gens, mgr, memjob, kind, arg, pre, hist, partvars>>

\* lines 409-410: tilebucket.deleteObject(key) for the next key of the chunk
delete_object(p) ==
    /\ pc[p] = "de_tiles"
    /\ loc[p].keys # {}
    /\ \/ \E k \in loc[p].keys :
            /\ bucket' = bucket \ {[ns |-> loc[p].cur[1].ns, key |-> k]}
            /\ loc' = [loc EXCEPT ![p].keys = @ \ {k}]
            /\ Goto(p, "de_tiles")
       \/ /\ Fault(p, "BOSS_SYSTEM_ERROR")
          /\ UNCHANGED <<bucket, loc>>
    /\ UNCHANGED <<jobs, nextId, upq, inq, policies, creds, tileindex, gens,
                   mgr, memjob, kind, arg, pre, hist, partvars>>

\* line 411: tiledb.deleteCuboid(chunk['chunk_key']), then the next chunk
delete_cuboid(p) ==
    /\ pc[p] = "de_tiles"
    /\ loc[p].keys = {}
    /\ \/ /\ tileindex' = {e \in tileindex : ~(e.ns = loc[p].cur[1].ns
                                              /\ e.chunk_key = loc[p].cur[1].chunk_key)}
          /\ IF loc[p].chunks = {}
               THEN /\ loc' = [loc EXCEPT ![p].cur = <<>>]
                    /\ Goto(p, "de_save")
               ELSE /\ \E c \in loc[p].chunks : TakeChunk(p, c, loc[p].chunks \ {c})
                    /\ Goto(p, "de_tiles")
       \/ /\ Fault(p, "BOSS_SYSTEM_ERROR")
          /\ UNCHANGED <<tileindex, loc>>
    /\ UNCHANGED <<jobs, nextId, upq, inq, policies, creds, bucket, gens,
                   mgr, memjob, kind, arg, pre, hist, partvars>>

\* a mutant of MarkDeleted: the status written is the one after Active
MarkDeleted_next(obj) ==
    [obj EXCEPT !.status = STATUS_ACTIVE + 1]

\* line 237: ingest_job.status = 3
MarkDeleted(obj) ==
    [obj EXCEPT !.status = STATUS_DELETED]

\* lines 237-238: ingest_job.status = 3; ingest_job.save()
delete_save(p) ==
    /\ pc[p] = "de_save"
    /\ loc' = [loc EXCEPT ![p].ij = MarkDeleted(@)]
    /\ \/ /\ jobs' = [jobs EXCEPT ![loc[p].ij.id] = SavedRow(@, loc'[p].ij)]
          /\ Goto(p, "de_creds")
       \/ /\ Fault(p, "Exception")
          /\ UNCHANGED jobs
    /\ UNCHANGED <<nextId, upq, inq, policies, creds, tileindex, bucket, gens,
                   mgr, memjob, kind, arg, pre, hist, partvars>>

\* line 440: ingest_creds.remove_credentials(job_id)
remove_credentials(p) ==
    /\ pc[p] = "de_creds"
    /\ \/ /\ creds' = {x \in creds : x.job_id # arg[p].job_id}
          /\ Goto(p, "de_policy")
       \/ /\ Fault(p, "Exception")
          /\ UNCHANGED creds
    /\ UNCHANGED <<jobs, nextId, upq, inq, policies, tileindex, bucket, gens,
                   mgr, memjob, kind, arg, loc, pre, hist, partvars>>

\* lines 441, 247: BossUtil.delete_ingest_policy(job_id); return ingest_job_id
delete_ingest_policy(p) ==
    /\ pc[p] = "de_policy"
    /\ \/ /\ policies' = {x \in policies : x.job_id # arg[p].job_id}
          /\ Return(p, arg[p].job_id)
       \/ /\ Fault(p, "Exception")
          /\ UNCHANGED policies
    /\ UNCHANGED <<jobs, nextId, upq, inq, creds, tileindex, bucket, gens,
                   mgr, memjob, kind, arg, loc, pre, hist, partvars>>

(***************************************************************************)
(* The environment: callers and upload workers                             *)
(***************************************************************************)

\* the caller of request p has received its outcome
Finish(p) ==
    /\ pc[p] = "done"
    /\ pc' = [pc EXCEPT ![p] = "idle"]
    /\ kind' = [kind EXCEPT ![p] = "none"]
    /\ arg' = [arg EXCEPT ![p] = NoArg]
    /\ loc' = [loc EXCEPT ![p] = NoLoc]
    /\ res' = [res EXCEPT ![p] = "none"]
    /\ ret' = [ret EXCEPT ![p] = 0]
    /\ pre' = [pre EXCEPT ![p] = <<>>]
    /\ UNCHANGED <<shared, faults, gens, mgr, memjob, hist, partvars>>

\* the service makes a new IngestManager() for the next request
NewManager ==
    /\ Quiet
    /\ mgr # NewMgr
    /\ mgr' = NewMgr
    /\ UNCHANGED <<shared, faults, gens, memjob, pc, kind, arg, loc, res, ret, pre, hist, partvars>>

\* an upload worker takes a task message from an upload queue, puts the tile
\* in the tile bucket (replacing an object of the same key) and records it in
\* the chunk's entry of the tile index, unless the entry records it already
WorkerUpload ==
    /\ \E j \in JobIds : \E n \in 1..Len(upq[j].msgs) :
         LET m == upq[j].msgs[n]
             ns == Namespace(jobs[m.job_id].bosskey)
             old == {e \in tileindex : e.ns = ns /\ e.chunk_key = m.chunk_key}
         IN  /\ upq[j].exists
             /\ \A e \in old : m.tile_key \notin e.tiles
             /\ bucket' = bucket \cup {[ns |-> ns, key |-> m.tile_key]}
             /\ tileindex' = (tileindex \ old) \cup
                   (IF old = {}
                      THEN {[ns |-> ns, chunk_key |-> m.chunk_key, task_id |-> m.job_id,
                             tiles |-> {m.tile_key}]}
                      ELSE {[e EXCEPT !.tiles = @ \cup {m.tile_key}] : e \in old})
    /\ UNCHANGED <<jobs, nextId, upq, inq, policies, creds, faults, gens,
                   mgr, memjob, pc, kind, arg, loc, res, ret, pre, hist, partvars>>

(***************************************************************************)
(* Specification: requests served one at a time on one manager instance.   *)
(***************************************************************************)
Next ==
    \/ \E p \in Procs : Serial(p) /\ \E c \in Configs : BeginSetup(p, c)
    \/ \E p \in Procs : Serial(p) /\ \E j \in JobIds : BeginDelete(p, j)
    \/ \E p \in Procs : validate_config_file(p)
    \/ \E p \in Procs : validate_properties(p)
    \/ \E p \in Procs : create_ingest_job(p)
    \/ \E p \in Procs : setup_nd_proj(p)
    \/ \E p \in Procs : create_upload_queue(p)
    \/ \E p \in Procs : create_ingest_queue(p)
    \/ \E p \in Procs : generate_begin(p)
    \/ \E p \in Procs : publish_task(p)
    \/ \E p \in Procs : generate_ingest_policy(p)
    \/ \E p \in Procs : generate_credentials(p)
    \/ \E p \in Procs : setup_save(p)
    \/ \E p \in Procs : delete_load(p)
    \/ \E p \in Procs : delete_upload_queue(p)
    \/ \E p \in Procs : delete_ingest_queue(p)
    \/ \E p \in Procs : list_chunks(p)
    \/ \E p \in Procs : delete_object(p)
    \/ \E p \in Procs : delete_cuboid(p)
    \/ \E p \in Procs : delete_save(p)
    \/ \E p \in Procs : remove_credentials(p)
    \/ \E p \in Procs : delete_ingest_policy(p)
    \/ \E p \in Procs : Finish(p)
    \/ WorkerUpload

Spec == Init /\ [][Next]_vars

(***************************************************************************)
(* Specification with direct calls: as Spec, and in addition the method    *)
(* generate_upload_tasks is called directly, with a job id or with none,   *)
(* on the manager as earlier requests left it or on a new IngestManager(). *)
(***************************************************************************)
GenerateArgs == {0} \cup JobIds

NextGen ==
    \/ Next
    \/ \E p \in Procs : Serial(p) /\ \E j \in GenerateArgs : BeginGenerate(p, j)
    \/ NewManager

SpecGen == Init /\ [][NextGen]_vars

(***************************************************************************)
(* Specification with overlapping requests: two requests are open on the   *)
(* one IngestManager instance at a time and their steps interleave.  The   *)
(* configs are valid, no collaborator fails, no tile is uploaded, and the  *)
(* deletion of a job is requested once.                                    *)
(***************************************************************************)
\* the valid config with the extent x[0,1) y[0,1) z[16,17) t[0,1): one task
ConcConfigs ==
    {c \in Configs : c.schema_ok /\ c.database \in Registry
                       /\ c.geo = Geo(0, 1, 0, 1, 16, 17, 0, 1, 1, 1)}

\* a request is taken by the first slot that is free
FreeSlot(p) == pc[p] = "idle" /\ \A q \in Procs : q < p => pc[q] # "idle"

\* the deletion of job j can be requested: the job exists and no deletion of
\* it has been requested before
DeleteOnce(j) ==
    /\ jobs[j].exists
    /\ j \notin hist.deleting
    /\ \A q \in Procs : ~(kind[q] = "delete" /\ arg[q].job_id = j)

NextConc ==
    \/ \E p \in Procs : FreeSlot(p) /\ \E c \in ConcConfigs : BeginSetup(p, c)
    \/ \E p \in Procs : FreeSlot(p) /\ \E j \in JobIds : DeleteOnce(j) /\ BeginDelete(p, j)
    \/ \E p \in Procs : validate_config_file(p)
    \/ \E p \in Procs : validate_properties(p)
    \/ \E p \in Procs : create_ingest_job(p)
    \/ \E p \in Procs : setup_nd_proj(p)
    \/ \E p \in Procs : create_upload_queue(p)
    \/ \E p \in Procs : create_ingest_queue(p)
    \/ \E p \in Procs : generate_begin(p)
    \/ \E p \in Procs : publish_task(p)
    \/ \E p \in Procs : generate_ingest_policy(p)
    \/ \E p \in Procs : generate_credentials(p)
    \/ \E p \in Procs : setup_save(p)
    \/ \E p \in Procs : delete_load(p)
    \/ \E p \in Procs : delete_upload_queue(p)
    \/ \E p \in Procs : delete_ingest_queue(p)
    \/ \E p \in Procs : list_chunks(p)
    \/ \E p \in Procs : delete_save(p)
    \/ \E p \in Procs : remove_credentials(p)
    \/ \E p \in Procs : delete_ingest_policy(p)
    \/ \E p \in Procs : Finish(p)

SpecConc == Init /\ [][NextConc /\ faults' = faults]_vars

(***************************************************************************)
(* Specification of the partition: generate_upload_tasks applied to one    *)
(* job, whose extent and tile size are drawn from PartJobs.  Every job has *)
(* start <= stop on each axis and tile sizes > 0; starts below zero and    *)
(* starts that are no multiple of the tile size are among them.            *)
(***************************************************************************)
TileSizes == {2, 64}
XStarts(ts) == {-ts, -1, 0, 1}
ZStarts == {-ChunkDepth, -8, 0, 8}
XLens(ts) == {q * ts + r : q \in 0..MaxStrides, r \in {0, 1}}
YLens(ts) == {q * ts + r : q \in 0..MaxStrides, r \in {0, 1}}
ZLens == {q * ChunkDepth + r : q \in 0..MaxChunks, r \in {0, 4}}

PartJobs ==
    UNION {{Geo(xa, xa + xl, 0, yl, za, za + zl, 0, tl, sx, 64) :
               xa \in XStarts(sx), xl \in XLens(sx), yl \in YLens(64),
               za \in ZStarts, zl \in ZLens, tl \in 0..MaxTimeSteps} : sx \in TileSizes}

\* the lookup key of the channel the partitioned job is bound to
PartProject == <<"1", "1", "1">>

InitPart ==
    /\ InitLifecycle
    /\ pjob \in PartJobs
    /\ ptasks = <<>>
    /\ ppc = "ready"

\* lines 322-355: one run of generate_upload_tasks over the job
GenerateTasks ==
    /\ ppc = "ready"
    /\ ptasks' = UploadTasks(pjob, PartProject)
    /\ ppc' = "done"
    /\ UNCHANGED <<pjob, shared, faults, gens, mgr, memjob, pc, kind, arg, loc, res, ret, pre, hist>>

\* the tile_size z and t values of the configs of the second run
TileSizesZ == {ChunkDepth, 8}
TileSizesT == {1, 2}

\* lines 322-355: a second run of generate_upload_tasks, over a job with the
\* same extent and the same tile_size x and y, whose tile_size z and t are
\* drawn anew: the same job when they are 16 and 1 again
GenerateTasksAgain ==
    /\ ppc = "done"
    /\ \E sz \in TileSizesZ : \E st \in TileSizesT :
          /\ pjob' = [pjob EXCEPT !.tile_size_z = sz, !.tile_size_t = st]
          /\ ptasks' = UploadTasks(pjob', PartProject)
    /\ ppc' = "again"
    /\ UNCHANGED <<shared, faults, gens, mgr, memjob, pc, kind, arg, loc, res, ret, pre, hist>>

NextPart ==
    \/ GenerateTasks
    \/ GenerateTasksAgain

SpecPart == InitPart /\ [][NextPart]_vars

(***************************************************************************)
(* Properties of the partition (checked under SpecPart).                   *)
(***************************************************************************)
TileKeysOf(tasks) == {tasks[i].tile_key : i \in 1..Len(tasks)}
ChunkStartsOf(tasks) == {tasks[i].z : i \in 1..Len(tasks)}
ChunkZsOf(tasks) == {tasks[i].chunk_z : i \in 1..Len(tasks)}
PositionsOf(tasks) ==
    {<<tasks[i].chunk_x, tasks[i].chunk_y, tasks[i].chunk_z, tasks[i].tile, tasks[i].time_step>> :
        i \in 1..Len(tasks)}
TasksAtZ(tasks, z) == {i \in 1..Len(tasks) : tasks[i].z = z}
CeilDiv(a, b) == (a + b - 1) \div b
Min(a, b) == IF a <= b THEN a ELSE b

\* Scenario A: extent x[0,64) y[0,64) z[0,32) t[0,1), tile_size x=64, y=64
ScenarioA == Geo(0, 64, 0, 64, 0, 32, 0, 1, 64, 64)

\* C4: for Scenario A generate_upload_tasks emits 2 chunks (z=0 and z=16) of
\* 16 tiles each, 32 TileTasks in total, and the 32 tasks carry pairwise
\* distinct tile keys.
C4_ScenarioA_DistinctTileKeys ==
    (ppc = "done" /\ pjob = ScenarioA) =>
        /\ Len(ptasks) = 32
        /\ ChunkStartsOf(ptasks) = {0, 16}
        /\ \A z \in {0, 16} : Cardinality(TasksAtZ(ptasks, z)) = 16
        /\ Cardinality(TileKeysOf(ptasks)) = 32

\* the general statement of C4: the tasks emitted for one job have pairwise
\* distinct tile keys
C4_AllJobs_DistinctTileKeys ==
    ppc = "done" => Cardinality(TileKeysOf(ptasks)) = Len(ptasks)

\* the part of C4 the code meets: Scenario A gives 2 chunks of 16 tiles, 32 tasks
C4_ScenarioA_Counts ==
    (ppc = "done" /\ pjob = ScenarioA) =>
        /\ Len(ptasks) = 32
        /\ ChunkStartsOf(ptasks) = {0, 16}
        /\ \A z \in {0, 16} : Cardinality(TasksAtZ(ptasks, z)) = 16

\* the tile keys of Scenario A: the 32 tasks carry 16 keys, each one twice
C4_ScenarioA_Keys ==
    (ppc = "done" /\ pjob = ScenarioA) => Cardinality(TileKeysOf(ptasks)) = 16

\* an extent whose x and y ranges are whole numbers of tiles and whose z range
\* is a whole number of chunks
DivisibleExtent(job) ==
    /\ (job.x_stop - job.x_start) % job.tile_size_x = 0
    /\ (job.y_stop - job.y_start) % job.tile_size_y = 0
    /\ (job.z_stop - job.z_start) % ChunkDepth = 0

\* the number of tile positions of a divisible extent
NumTilePositions(job) ==
    ((job.x_stop - job.x_start) \div job.tile_size_x)
      * ((job.y_stop - job.y_start) \div job.tile_size_y)
      * (job.z_stop - job.z_start)
      * (job.t_stop - job.t_start)

\* C5: for an extent whose x and y ranges are multiples of the tile size and
\* whose z range is a multiple of 16, the emitted tasks, identified by their
\* (chunk_x, chunk_y, chunk_z, tile, time_step) indices, tile the extent
\* exactly: one task per tile position, and no index tuple appears twice.
C5_ExactTiling ==
    (ppc = "done" /\ DivisibleExtent(pjob)) =>
        /\ Len(ptasks) = NumTilePositions(pjob)
        /\ Cardinality(PositionsOf(ptasks)) = Len(ptasks)

\* an extent whose x, y and z bounds lie on the tile grid
GridExtent(job) ==
    /\ job.x_start % job.tile_size_x = 0
    /\ job.x_stop % job.tile_size_x = 0
    /\ job.y_start % job.tile_size_y = 0
    /\ job.y_stop % job.tile_size_y = 0
    /\ job.z_start % ChunkDepth = 0
    /\ job.z_stop % ChunkDepth = 0

\* the tile positions of an extent on the grid
TilePositions(job) ==
    {<<cx, cy, cz, k, t>> :
        cx \in (job.x_start \div job.tile_size_x)..((job.x_stop \div job.tile_size_x) - 1),
        cy \in (job.y_start \div job.tile_size_y)..((job.y_stop \div job.tile_size_y) - 1),
        cz \in (job.z_start \div ChunkDepth)..((job.z_stop \div ChunkDepth) - 1),
        k \in 0..(ChunkDepth - 1),
        t \in job.t_start..(job.t_stop - 1)}

\* the part of C5 the code meets: for an extent whose bounds lie on the tile
\* grid (negative bounds included) the indices of the emitted tasks are exactly
\* the tile positions of the extent, each emitted once
C5_GridExtentTiled ==
    (ppc = "done" /\ GridExtent(pjob)) =>
        /\ PositionsOf(ptasks) = TilePositions(pjob)
        /\ Cardinality(PositionsOf(ptasks)) = Len(ptasks)

\* the part of C5 the code meets: a divisible extent that does not start below
\* zero gets one task per tile position, no index tuple twice
C5_NonNegativeStartTiled ==
    (/\ ppc = "done"
     /\ DivisibleExtent(pjob)
     /\ pjob.x_start >= 0 /\ pjob.y_start >= 0 /\ pjob.z_start >= 0) =>
        /\ Len(ptasks) = NumTilePositions(pjob)
        /\ Cardinality(PositionsOf(ptasks)) = Len(ptasks)

\* C6: for a job with non-empty x, y and t ranges the z range is split into
\* ceil((z_stop - z_start) / 16) chunks with distinct chunk_z values, and the
\* chunk starting at plane z has min(16, z_stop - z) tiles.
C6_ChunkCount ==
    (/\ ppc = "done"
     /\ pjob.x_start < pjob.x_stop
     /\ pjob.y_start < pjob.y_stop
     /\ pjob.t_start < pjob.t_stop) =>
        /\ Cardinality(ChunkStartsOf(ptasks)) = CeilDiv(pjob.z_stop - pjob.z_start, ChunkDepth)
        /\ Cardinality(ChunkZsOf(ptasks)) = CeilDiv(pjob.z_stop - pjob.z_start, ChunkDepth)
        /\ \A i \in 1..Len(ptasks) :
              ptasks[i].num_of_tiles = Min(ChunkDepth, pjob.z_stop - ptasks[i].z)

\* the part of C6 the code meets: the number of chunks along z and their sizes
C6_ChunkSizes ==
    (/\ ppc = "done"
     /\ pjob.x_start < pjob.x_stop
     /\ pjob.y_start < pjob.y_stop
     /\ pjob.t_start < pjob.t_stop) =>
        /\ Cardinality(ChunkStartsOf(ptasks)) = CeilDiv(pjob.z_stop - pjob.z_start, ChunkDepth)
        /\ \A i \in 1..Len(ptasks) :
              ptasks[i].num_of_tiles = Min(ChunkDepth, pjob.z_stop - ptasks[i].z)

\* the case of C6 the code fails: z[-8,12) gives the chunks at z=-8 and z=8,
\* both with chunk_z = 0
C6_NegativeStart ==
    (/\ ppc = "done"
     /\ pjob.x_start < pjob.x_stop
     /\ pjob.y_start < pjob.y_stop
     /\ pjob.t_start < pjob.t_stop
     /\ pjob.z_start = -8
     /\ pjob.z_stop = 12) => Cardinality(ChunkZsOf(ptasks)) = 2

(***************************************************************************)
(* Properties of the lifecycle (checked under Spec).                       *)
(***************************************************************************)

\* the job whose row request p has created (self.job), while p is in setup
SetupJob(p) == mgr.job

\* C1: a job record created by setup_ingest starts with status Created; when
\* setup_ingest returns without error the persisted status of the job it
\* returns is Active; when delete_ingest_job returns without error the
\* persisted status of the job is Deleted.
C1_LifecycleStatus ==
    \A p \in Procs :
        /\ (kind[p] = "setup" /\ pc[p] = "su_proj") =>
              /\ jobs[SetupJob(p)].exists
              /\ jobs[SetupJob(p)].status = STATUS_CREATED
        /\ (kind[p] = "setup" /\ pc[p] = "done" /\ res[p] = "ok") =>
              /\ jobs[ret[p]].exists
              /\ jobs[ret[p]].status = STATUS_ACTIVE
        /\ (kind[p] = "delete" /\ pc[p] = "done" /\ res[p] = "ok") =>
              /\ jobs[ret[p]].exists
              /\ jobs[ret[p]].status = STATUS_DELETED

\* a delete_ingest_job has returned without error for a job that setup_ingest
\* had made Active (its persisted queue references are set)
C1_Witness ==
    \E p \in Procs :
        /\ kind[p] = "delete" /\ pc[p] = "done" /\ res[p] = "ok"
        /\ jobs[ret[p]].status = STATUS_DELETED
        /\ jobs[ret[p]].upload_queue = UploadUrl(ret[p])

\* C2 as stated: every change of a job's persisted status is Created->Active
\* or Active->Deleted.
C2_NoSkip ==
    [][\A j \in JobIds :
          (jobs[j].exists /\ jobs'[j].status # jobs[j].status) =>
              <<jobs[j].status, jobs'[j].status>> \in
                  {<<STATUS_CREATED, STATUS_ACTIVE>>, <<STATUS_ACTIVE, STATUS_DELETED>>}]_vars

\* C2 as amended: every change of a job's persisted status is Created->Active,
\* Active->Deleted or Created->Deleted; the status never moves backward.
C2_Monotonic ==
    [][\A j \in JobIds :
          (jobs[j].exists /\ jobs'[j].status # jobs[j].status) =>
              <<jobs[j].status, jobs'[j].status>> \in
                  {<<STATUS_CREATED, STATUS_ACTIVE>>, <<STATUS_ACTIVE, STATUS_DELETED>>,
                   <<STATUS_CREATED, STATUS_DELETED>>}]_vars

\* a job whose setup failed after its row was created (its persisted queue
\* references were never set) has been deleted: Created -> Deleted
C2_Witness ==
    \E j \in JobIds :
        /\ jobs[j].exists
        /\ jobs[j].status = STATUS_DELETED
        /\ jobs[j].upload_queue = NoQueue

\* no request is between two of its steps
AtRest == \A p \in Procs : pc[p] \in {"idle", "done"}

\* the resources of job j are gone: queues, index entries, credentials, policy
Cleaned(j) ==
    /\ ~upq[j].exists
    /\ ~inq[j]
    /\ TaskItems(j) = {}
    /\ \A x \in creds : x.job_id # j
    /\ \A x \in policies : x.job_id # j

\* C3: whenever a job's persisted status is Deleted (and no request is in
\* progress), its queues are deprovisioned, its tiles and chunk index entries
\* are purged and its credentials and policy are removed: a cleanup step that
\* fails never leaves the job marked Deleted.
C3_DeletedMeansCleaned ==
    AtRest => \A j \in JobIds :
        (jobs[j].exists /\ jobs[j].status = STATUS_DELETED) => Cleaned(j)

\* the shared state is as it was when request p began
Untouched(p) == Snapshot = pre[p][1]

\* C7: delete_ingest_job with a job id that has no record fails with
\* OBJECT_NOT_FOUND and changes nothing.
C7_NotFound ==
    \A p \in Procs :
        (/\ kind[p] = "delete"
         /\ pc[p] = "done"
         /\ ~pre[p][1].jobs[arg[p].job_id].exists) =>
            /\ res[p] = "OBJECT_NOT_FOUND"
            /\ Untouched(p)

\* the part of C7 the code meets: the call fails and changes nothing
C7_FailsUntouched ==
    \A p \in Procs :
        (/\ kind[p] = "delete"
         /\ pc[p] = "done"
         /\ ~pre[p][1].jobs[arg[p].job_id].exists) =>
            /\ res[p] = "BOSS_SYSTEM_ERROR"
            /\ Untouched(p)

\* C8: a setup_ingest whose config fails schema validation ends with
\* UNABLE_TO_VALIDATE; one whose collection, experiment or channel cannot be
\* resolved ends with RESOURCE_NOT_FOUND.
C8_ErrorKinds ==
    \A p \in Procs :
        (kind[p] = "setup" /\ pc[p] = "done") =>
            /\ ~arg[p].config[1].schema_ok => res[p] = "UNABLE_TO_VALIDATE"
            /\ (arg[p].config[1].schema_ok /\ arg[p].config[1].database \notin Registry) =>
                  res[p] = "RESOURCE_NOT_FOUND"

\* a setup_ingest whose experiment is unknown has ended with RESOURCE_NOT_FOUND
C8_Witness ==
    \E p \in Procs :
        /\ kind[p] = "setup" /\ pc[p] = "done"
        /\ arg[p].config[1].database = <<"col1", "expX", "ch1">>
        /\ res[p] = "RESOURCE_NOT_FOUND"

\* C9: a setup_ingest that fails at config validation or at resource binding
\* leaves the job table, the queues and their messages, the policies and the
\* credentials as they were.
C9_FailedValidationChangesNothing ==
    \A p \in Procs :
        (/\ kind[p] = "setup"
         /\ pc[p] = "done"
         /\ res[p] \in {"UNABLE_TO_VALIDATE", "RESOURCE_NOT_FOUND"}) => Untouched(p)

\* a setup_ingest has failed at resource binding while another job was Active
C9_Witness ==
    \E p \in Procs :
        /\ kind[p] = "setup" /\ pc[p] = "done"
        /\ res[p] = "RESOURCE_NOT_FOUND"
        /\ \E j \in JobIds : jobs[j].exists /\ jobs[j].status = STATUS_ACTIVE /\ upq[j].exists

\* C10: every provisioned queue, every published task and every policy and
\* credential belongs to a job id whose record exists.
C10_ResourcesHaveJob ==
    /\ \A j \in JobIds :
          (upq[j].exists \/ inq[j] \/ upq[j].msgs # <<>>) => jobs[j].exists
    /\ \A j \in JobIds : \A n \in 1..Len(upq[j].msgs) :
          /\ upq[j].msgs[n].job_id \in JobIds
          /\ jobs[upq[j].msgs[n].job_id].exists
    /\ \A x \in policies \cup creds :
          /\ x.job_id \in JobIds
          /\ jobs[x.job_id].exists

\* a setup_ingest has failed after provisioning the upload queue: the queue
\* belongs to a job whose record exists, still Created
C10_Witness ==
    \E p \in Procs :
        /\ kind[p] = "setup" /\ pc[p] = "done" /\ res[p] = "BOSS_SYSTEM_ERROR"
        /\ upq[SetupJob(p)].exists
        /\ upq[SetupJob(p)].msgs # <<>>
        /\ jobs[SetupJob(p)].status = STATUS_CREATED

\* the messages of job j's upload queue are the tasks of its extent, in order
Published(j) ==
    /\ Len(upq[j].msgs) = Len(TasksOf(j))
    /\ \A n \in 1..Len(TasksOf(j)) :
          /\ upq[j].msgs[n].chunk_key = TasksOf(j)[n].chunk_key
          /\ upq[j].msgs[n].tile_key = TasksOf(j)[n].tile_key

\* credentials bound to a policy of job j exist
CredentialsIssued(j) ==
    \E c \in creds : \E x \in policies :
        c.job_id = j /\ x.job_id = j /\ c.policy = x.job_id

\* C11: in every state in which no deletion of the job has started, a job whose
\* persisted status is Active has its upload queue and its ingest queue
\* provisioned, every task of its extent published and its credentials issued.
C11_ActiveMeansProvisioned ==
    \A j \in JobIds :
        (jobs[j].exists /\ jobs[j].status = STATUS_ACTIVE /\ j \notin hist.deleting) =>
            /\ upq[j].exists
            /\ inq[j]
            /\ Published(j)
            /\ CredentialsIssued(j)

\* job 1 is Active and untouched by any deletion after a later setup_ingest
\* has failed part-way
C11_Witness ==
    /\ jobs[1].exists /\ jobs[1].status = STATUS_ACTIVE /\ 1 \notin hist.deleting
    /\ jobs[2].exists /\ jobs[2].status = STATUS_CREATED
    /\ Len(upq[1].msgs) = Len(TasksOf(1)) /\ Len(TasksOf(1)) > 0
    /\ AtRest

\* request p has created a job row since it began
RowCreated(p) ==
    \E j \in JobIds : jobs[j].exists /\ ~pre[p][1].jobs[j].exists

\* a call of a collaborator has failed since request p began
FailedSince(p) == faults > pre[p][2]

\* C12: a failure in setup_ingest after the job row has been created reaches
\* the caller as BOSS_SYSTEM_ERROR: the call does not return normally and does
\* not end with another error code.
C12_SystemErrorAfterCreate ==
    \A p \in Procs :
        (kind[p] = "setup" /\ pc[p] = "done" /\ RowCreated(p)) =>
            /\ res[p] \in {"ok", "BOSS_SYSTEM_ERROR"}
            /\ FailedSince(p) => res[p] = "BOSS_SYSTEM_ERROR"
            /\ res[p] = "ok" => ~FailedSince(p)

\* a setup_ingest has failed while publishing its second task
C12_Witness ==
    \E p \in Procs :
        /\ kind[p] = "setup" /\ pc[p] = "done" /\ RowCreated(p) /\ FailedSince(p)
        /\ res[p] = "BOSS_SYSTEM_ERROR"
        /\ Len(upq[SetupJob(p)].msgs) = 1

\* C13: when setup_ingest fails at a step after the job row was created, the
\* persisted status of the job stays Created and the step that fails changes
\* neither the job table nor the queues, the published tasks, the policies or
\* the credentials: what the call had provisioned is left in place.
C13_NoRollback ==
    [][\A p \in Procs :
          (/\ kind[p] = "setup"
           /\ pc[p] \notin {"idle", "done"}
           /\ RowCreated(p)
           /\ pc'[p] = "done"
           /\ res'[p] # "ok") =>
              /\ jobs'[SetupJob(p)].status = STATUS_CREATED
              /\ jobs' = jobs
              /\ upq' = upq
              /\ inq' = inq
              /\ policies' = policies
              /\ creds' = creds]_vars

\* a setup_ingest has failed at its final save: the job is Created, its queues,
\* its tasks and its credentials are in place
C13_Witness ==
    \E p \in Procs :
        /\ kind[p] = "setup" /\ pc[p] = "done" /\ res[p] = "BOSS_SYSTEM_ERROR"
        /\ RowCreated(p)
        /\ jobs[SetupJob(p)].status = STATUS_CREATED
        /\ upq[SetupJob(p)].exists /\ inq[SetupJob(p)]
        /\ Published(SetupJob(p))
        /\ CredentialsIssued(SetupJob(p))

\* the chunk keys that have an entry in the tile index ti
IndexKeys(ti) == {<<e.ns, e.chunk_key>> : e \in ti}

\* this step removes a tile object or a chunk entry
PurgeStep ==
    \/ (bucket' # bucket /\ bucket' \subseteq bucket)
    \/ (IndexKeys(tileindex') # IndexKeys(tileindex)
          /\ IndexKeys(tileindex') \subseteq IndexKeys(tileindex))

\* C14: delete_ingest_job deprovisions the upload queue, then the ingest
\* queue, then purges the tiles and chunk entries, then persists status
\* Deleted, then removes the credentials, then the policy: a step acts only
\* when the earlier ones are done and the later resources are still as they
\* were when the call began, and a step that fails changes nothing.
C14_DeleteOrder ==
    [][\A p \in Procs :
          (kind[p] = "delete" /\ pc[p] \notin {"idle", "done"}) =>
            LET j == arg[p].job_id
                before == pre[p][1]
            IN  /\ upq' # upq =>
                      /\ ~upq'[j].exists
                      /\ inq' = before.inq /\ ~PurgeStep /\ jobs' = before.jobs
                      /\ creds' = before.creds /\ policies' = before.policies
                /\ inq' # inq =>
                      /\ ~upq'[j].exists /\ ~inq'[j]
                      /\ ~PurgeStep /\ jobs' = before.jobs
                      /\ creds' = before.creds /\ policies' = before.policies
                /\ PurgeStep =>
                      /\ ~upq'[j].exists /\ ~inq'[j]
                      /\ jobs' = before.jobs
                      /\ creds' = before.creds /\ policies' = before.policies
                /\ jobs' # jobs =>
                      /\ ~upq'[j].exists /\ ~inq'[j]
                      /\ TaskItems(j) = {}
                      /\ jobs'[j].status = STATUS_DELETED
                      /\ creds' = before.creds /\ policies' = before.policies
                /\ creds' # creds =>
                      /\ jobs'[j].status = STATUS_DELETED
                      /\ \A c \in creds' : c.job_id # j
                      /\ policies' = before.policies
                /\ policies' # policies =>
                      /\ jobs'[j].status = STATUS_DELETED
                      /\ \A c \in creds' : c.job_id # j
                      /\ \A x \in policies' : x.job_id # j
                /\ (pc'[p] = "done" /\ res'[p] # "ok") =>
                      UNCHANGED <<jobs, upq, inq, tileindex, bucket, policies, creds>>]_vars

\* a delete_ingest_job has failed at the save of status Deleted: the queues of
\* the job are gone, its status, credentials and policy are as before
C14_Witness ==
    \E p \in Procs :
        /\ kind[p] = "delete" /\ pc[p] = "done" /\ res[p] = "BOSS_SYSTEM_ERROR"
        /\ pre[p][1].upq[arg[p].job_id].exists
        /\ ~upq[arg[p].job_id].exists
        /\ ~inq[arg[p].job_id]
        /\ jobs[arg[p].job_id].status = STATUS_ACTIVE
        /\ CredentialsIssued(arg[p].job_id)

\* request p's delete_ingest_job has failed inside the loop of delete_tiles,
\* at the chunk loc[p].cur
PurgeFailed(p) ==
    /\ kind[p] = "delete" /\ pc[p] = "done" /\ res[p] # "ok"
    /\ loc[p].cur # <<>>

\* C15: when the deletion of a tile object or of a chunk entry fails in
\* delete_tiles, the deletion of every other chunk listed for the job has been
\* attempted by the time the error is reported: with one failure, only the
\* chunk at which it occurred can still have its entry.
C15_AllChunksAttempted ==
    \A p \in Procs :
        PurgeFailed(p) =>
            /\ loc[p].chunks = {}
            /\ \A e \in TaskItems(arg[p].job_id) : e.chunk_key = loc[p].cur[1].chunk_key

\* what the code does: the error is raised at the first failure, the chunks
\* not yet visited keep their entries
C15_StopsAtFirstFailure ==
    \A p \in Procs :
        PurgeFailed(p) =>
            \A c \in loc[p].chunks : \E e \in tileindex :
                e.ns = c.ns /\ e.chunk_key = c.chunk_key /\ e.task_id = c.task_id

\* request p's delete_ingest_job has returned the id of the job it deleted
Deleted(p) == kind[p] = "delete" /\ pc[p] = "done" /\ res[p] = "ok"

\* the chunk entries of the tile index when the delete request p began
EntriesBefore(p) == pre[p][3].tileindex

\* C16: after a successful delete_ingest_job for job J no chunk entry owned by
\* J remains and the tile objects its chunks tracked are gone, while every
\* chunk entry owned by another job, and every tile object such an entry
\* tracked, is still there.
C16_PurgeOnlyOwnTiles ==
    \A p \in Procs :
        Deleted(p) =>
            LET J == arg[p].job_id
            IN  /\ \A e \in tileindex : e.task_id # J
                /\ \A e \in EntriesBefore(p) :
                      e.task_id # J =>
                          /\ \E f \in tileindex :
                                /\ f.ns = e.ns /\ f.chunk_key = e.chunk_key
                                /\ f.task_id = e.task_id /\ e.tiles \subseteq f.tiles
                          /\ \A k \in e.tiles : [ns |-> e.ns, key |-> k] \in bucket

\* the part of C16 the code meets: the entries owned by J are gone and the
\* entries owned by other jobs are kept
C16_OwnEntriesPurged ==
    \A p \in Procs :
        Deleted(p) =>
            LET J == arg[p].job_id
            IN  /\ \A e \in tileindex : e.task_id # J
                /\ \A e \in EntriesBefore(p) :
                      e.task_id # J =>
                          \E f \in tileindex :
                              /\ f.ns = e.ns /\ f.chunk_key = e.chunk_key
                              /\ f.task_id = e.task_id /\ e.tiles \subseteq f.tiles

\* the resources the policy x gives access to: the upload queue and the tile
\* bucket it was generated from
PolicyResources(x) == {<<"upload_queue", x.queue>>, <<"bucket", x.bucket>>}

\* the resources of job j: its two queues and the tile bucket its tiles go to
JobResources(j) ==
    {<<"upload_queue", j>>, <<"ingest_queue", j>>, <<"bucket", Namespace(jobs[j].bosskey)>>}

\* the policy the credentials c are bound to
PolicyOf(c) == {x \in policies : x.job_id = c.policy}

\* C17: the policy that the credentials of job J are bound to gives access to
\* no queue and no bucket resource of any other job.
C17_NoForeignAccess ==
    \A c \in creds : \A x \in PolicyOf(c) : \A j \in JobIds :
        (jobs[j].exists /\ j # c.job_id) => PolicyResources(x) \cap JobResources(j) = {}

\* C17, coverage: the policy covers exactly J's upload queue, J's ingest queue
\* and J's tile bucket
C17_CoversOwnResources ==
    \A c \in creds : \A x \in PolicyOf(c) : PolicyResources(x) = JobResources(c.job_id)

\* what the code does: the policy names J's upload queue and the tile bucket
\* of J's collection and experiment, and no queue of another job
C17_UploadQueueAndBucket ==
    \A c \in creds :
        /\ PolicyOf(c) # {}
        /\ \A x \in PolicyOf(c) :
              /\ PolicyResources(x) =
                    {<<"upload_queue", c.job_id>>, <<"bucket", Namespace(jobs[c.job_id].bosskey)>>}
              /\ \A j \in JobIds :
                    j # c.job_id =>
                       PolicyResources(x) \cap {<<"upload_queue", j>>, <<"ingest_queue", j>>} = {}

\* the fields of a task message
TaskMessageFields == {"job_id", "chunk_key", "tile_key", "upload_queue_arn", "ingest_queue_arn"}

\* C18: every message published during setup_ingest has exactly the five
\* fields job_id, chunk_key, tile_key, upload_queue_arn and ingest_queue_arn;
\* job_id is the job's id, the two queue fields are the references recorded
\* on the job, neither is absent, and both queues exist while the message is
\* in the upload queue.
C18_TaskMessages ==
    \A j \in JobIds : \A n \in 1..Len(upq[j].msgs) :
        LET m == upq[j].msgs[n]
        IN  /\ DOMAIN m = TaskMessageFields
            /\ m.job_id = j
            /\ m.upload_queue_arn # NoQueue
            /\ m.ingest_queue_arn # NoQueue
            /\ m.upload_queue_arn = UploadUrl(j)
            /\ m.ingest_queue_arn = IngestUrl(j)
            /\ m.upload_queue_arn = memjob[j].upload_queue
            /\ m.ingest_queue_arn = memjob[j].ingest_queue
            /\ jobs[j].upload_queue \in {NoQueue, m.upload_queue_arn}
            /\ jobs[j].ingest_queue \in {NoQueue, m.ingest_queue_arn}
            /\ upq[j].exists
            /\ inq[j]

\* both tasks of a job are in its upload queue while its setup_ingest is still
\* running: the references are on the job object, not yet in the saved row
C18_Witness ==
    \E p \in Procs :
        /\ kind[p] = "setup" /\ pc[p] = "su_policy"
        /\ Len(upq[SetupJob(p)].msgs) = 2
        /\ jobs[SetupJob(p)].upload_queue = NoQueue
        /\ memjob[SetupJob(p)].upload_queue = UploadUrl(SetupJob(p))

\* the tile objects that job j's chunks tracked when request p began are gone,
\* unless the chunk of another job tracks an object of the same key
OwnBlobsGone(p, j) ==
    \A e \in EntriesBefore(p) : \A k \in e.tiles :
        (e.task_id = j /\ [ns |-> e.ns, key |-> k] \in bucket) =>
            \E f \in tileindex : f.ns = e.ns /\ f.task_id # j /\ k \in f.tiles

\* C19: delete_ingest_job never removes a job row; a delete_ingest_job of an
\* existing job in which no collaborator fails returns the job id, whatever
\* the status of the job was (Created, Active, already Deleted, or left
\* half-deleted by a failed call), and every deletion that returns ends in the
\* same state: status Deleted, no queue, no chunk entry or tracked tile object
\* of the job, no credentials, no policy.
C19_SoftDeleteIdempotent ==
    /\ [](\A p \in Procs :
            (/\ kind[p] = "delete" /\ pc[p] = "done"
             /\ pre[p][1].jobs[arg[p].job_id].exists
             /\ ~FailedSince(p)) => res[p] = "ok")
    /\ [](\A p \in Procs :
            Deleted(p) =>
                /\ ret[p] = arg[p].job_id
                /\ jobs[arg[p].job_id].exists
                /\ jobs[arg[p].job_id].status = STATUS_DELETED
                /\ Cleaned(arg[p].job_id)
                /\ OwnBlobsGone(p, arg[p].job_id))
    /\ [][\A j \in JobIds : jobs[j].exists => jobs'[j].exists]_vars

\* a delete_ingest_job has been repeated, and has returned, for a job that an
\* earlier call had marked Deleted before failing to remove its credentials
C19_Witness ==
    \E p \in Procs :
        /\ Deleted(p)
        /\ pre[p][1].jobs[arg[p].job_id].status = STATUS_DELETED
        /\ \E c \in pre[p][1].creds : c.job_id = arg[p].job_id
        /\ Cleaned(arg[p].job_id)

\* a setup_ingest that has created job j is running
SetupRunning(j) ==
    \E p \in Procs : kind[p] = "setup" /\ pc[p] \notin {"idle", "done"} /\ SetupJob(p) = j

\* C20: the upload-queue and ingest-queue references of a job, on the job
\* object and in its saved row, are absent until the setup_ingest of that job
\* has provisioned the queue, are assigned by that setup_ingest only, and
\* once set are never changed by any step of any operation.
C20_QueueRefsSetOnce ==
    [][\A j \in JobIds :
          /\ jobs[j].upload_queue # NoQueue => jobs'[j].upload_queue = jobs[j].upload_queue
          /\ jobs[j].ingest_queue # NoQueue => jobs'[j].ingest_queue = jobs[j].ingest_queue
          /\ memjob[j].upload_queue # NoQueue => memjob'[j].upload_queue = memjob[j].upload_queue
          /\ memjob[j].ingest_queue # NoQueue => memjob'[j].ingest_queue = memjob[j].ingest_queue
          /\ jobs'[j].upload_queue # jobs[j].upload_queue =>
                jobs'[j].upload_queue = UploadUrl(j) /\ upq[j].exists /\ SetupRunning(j)
          /\ jobs'[j].ingest_queue # jobs[j].ingest_queue =>
                jobs'[j].ingest_queue = IngestUrl(j) /\ inq[j] /\ SetupRunning(j)
          /\ memjob'[j].upload_queue # memjob[j].upload_queue =>
                memjob'[j].upload_queue = UploadUrl(j) /\ upq'[j].exists /\ SetupRunning(j)
          /\ memjob'[j].ingest_queue # memjob[j].ingest_queue =>
                memjob'[j].ingest_queue = IngestUrl(j) /\ inq'[j] /\ SetupRunning(j)]_vars

\* a job has been set up and deleted and another job set up: the row of the
\* first still has the references its setup_ingest gave it
C20_Witness ==
    \E j \in JobIds : \E k \in JobIds :
        /\ j # k
        /\ jobs[j].status = STATUS_DELETED
        /\ jobs[j].upload_queue = UploadUrl(j)
        /\ jobs[j].ingest_queue = IngestUrl(j)
        /\ jobs[k].status = STATUS_ACTIVE
        /\ jobs[k].upload_queue = UploadUrl(k)

PublishFailed(p) ==
    /\ kind[p] = "setup" /\ pc[p] = "done"
    /\ loc[p].i >= 1
    /\ loc[p].ij.id = SetupJob(p)
    /\ loc[p].i <= Len(TasksOf(SetupJob(p)))

\* C22: when the publication of a task message fails during setup_ingest it is
\* not retried: the failing step ends the call with BOSS_SYSTEM_ERROR and
\* changes nothing, so neither that task nor a later one is published, no
\* policy or credentials are made for the job, the persisted status stays
\* Created, and the messages published before are still in the upload queue.
C22_PublishNotRetried ==
    /\ [][\A p \in Procs :
            (kind[p] = "setup" /\ pc[p] = "gen_publish" /\ faults' # faults) =>
                /\ pc'[p] = "done"
                /\ res'[p] = "BOSS_SYSTEM_ERROR"
                /\ UNCHANGED <<jobs, upq, inq, policies, creds>>]_vars
    /\ [](\A p \in Procs :
            PublishFailed(p) =>
                LET j == SetupJob(p)
                IN  /\ res[p] = "BOSS_SYSTEM_ERROR"
                    /\ upq[j].exists
                    /\ Len(upq[j].msgs) = loc[p].i - 1
                    /\ \A n \in 1..(loc[p].i - 1) :
                          /\ upq[j].msgs[n].chunk_key = TasksOf(j)[n].chunk_key
                          /\ upq[j].msgs[n].tile_key = TasksOf(j)[n].tile_key
                    /\ \A x \in creds \cup policies : x.job_id # j
                    /\ jobs[j].status = STATUS_CREATED)

\* the publication of the second of two tasks has failed: the first message is
\* in the upload queue, the second is not
C22_Witness ==
    \E p \in Procs :
        /\ PublishFailed(p)
        /\ loc[p].i = 2
        /\ Len(TasksOf(SetupJob(p))) = 2
        /\ Len(upq[SetupJob(p)].msgs) = 1
        /\ res[p] = "BOSS_SYSTEM_ERROR"

(***************************************************************************)
(* Further properties of the partition (checked under SpecPart).           *)
(***************************************************************************)
ChunkKeysOf(tasks) == {tasks[i].chunk_key : i \in 1..Len(tasks)}
TasksWithKey(tasks, ck) == {i \in 1..Len(tasks) : tasks[i].chunk_key = ck}
StepsOf(tasks) ==
    {<<tasks[i].time_step, tasks[i].z, tasks[i].y, tasks[i].x>> : i \in 1..Len(tasks)}
TasksAtStep(tasks, s) ==
    {i \in 1..Len(tasks) : <<tasks[i].time_step, tasks[i].z, tasks[i].y, tasks[i].x>> = s}

\* the tile count encoded in a chunk key: its first component
TileCountOf(ck) == ck[1]

\* C23: for every chunk generate_upload_tasks emits, the tile count encoded in
\* its chunk key equals the number of tasks published with that chunk key, and
\* those tasks carry the tile indices 0 .. tile_count-1, each exactly once.
C23_TileCountMatchesTasks ==
    ppc = "done" =>
        \A ck \in ChunkKeysOf(ptasks) :
            /\ Cardinality(TasksWithKey(ptasks, ck)) = TileCountOf(ck)
            /\ {ptasks[i].tile : i \in TasksWithKey(ptasks, ck)} = 0..(TileCountOf(ck) - 1)

\* the part of C23 the code meets: the tasks of one (time_step, z, y, x)
\* iteration step carry one chunk key, are as many as the tile count encoded
\* in it and carry the tile indices 0 .. tile_count-1, each once
C23_PerIterationStep ==
    ppc = "done" =>
        \A s \in StepsOf(ptasks) :
            LET I == TasksAtStep(ptasks, s)
            IN  \E ck \in ChunkKeysOf(ptasks) :
                    /\ \A i \in I : ptasks[i].chunk_key = ck
                    /\ Cardinality(I) = TileCountOf(ck)
                    /\ {ptasks[i].tile : i \in I} = 0..(TileCountOf(ck) - 1)

\* the part of C23 the code meets: C23 for the jobs whose x, y and z ranges do
\* not start below zero
C23_NonNegativeStart ==
    (ppc = "done" /\ pjob.x_start >= 0 /\ pjob.y_start >= 0 /\ pjob.z_start >= 0) =>
        \A ck \in ChunkKeysOf(ptasks) :
            /\ Cardinality(TasksWithKey(ptasks, ck)) = TileCountOf(ck)
            /\ {ptasks[i].tile : i \in TasksWithKey(ptasks, ck)} = 0..(TileCountOf(ck) - 1)

\* the (time_step, z, y, x) iteration step of a task
StepOf(t) == [time_step |-> t.time_step, z |-> t.z, y |-> t.y, x |-> t.x]

\* the first iteration step of the nested loops over a job
FirstStep(job) ==
    [time_step |-> job.t_start, z |-> job.z_start, y |-> job.y_start, x |-> job.x_start]

\* the iteration step after s when time_step is the outermost loop (step 1),
\* then z (step 16), then y (step tile_size_y), then x (step tile_size_x)
StepAfter(job, s) ==
    IF s.x + job.tile_size_x < job.x_stop
      THEN [s EXCEPT !.x = s.x + job.tile_size_x]
    ELSE IF s.y + job.tile_size_y < job.y_stop
      THEN [s EXCEPT !.x = job.x_start, !.y = s.y + job.tile_size_y]
    ELSE IF s.z + 16 < job.z_stop
      THEN [s EXCEPT !.x = job.x_start, !.y = job.y_start, !.z = s.z + 16]
    ELSE [FirstStep(job) EXCEPT !.time_step = s.time_step + 1]

\* the tasks are in nested order: the first task is tile 0 of the first
\* iteration step; after tile k of a chunk comes tile k+1 of the same chunk,
\* and after its last tile comes tile 0 of the next iteration step; after the
\* last task there is no further iteration step
NestedOrder(job, tasks) ==
    /\ Len(tasks) > 0 => (StepOf(tasks[1]) = FirstStep(job) /\ tasks[1].tile = 0)
    /\ \A i \in 1..(Len(tasks) - 1) :
          IF tasks[i].tile < tasks[i].num_of_tiles - 1
            THEN /\ StepOf(tasks[i + 1]) = StepOf(tasks[i])
                 /\ tasks[i + 1].tile = tasks[i].tile + 1
            ELSE /\ StepOf(tasks[i + 1]) = StepAfter(job, StepOf(tasks[i]))
                 /\ tasks[i + 1].tile = 0
    /\ Len(tasks) > 0 =>
          /\ tasks[Len(tasks)].tile = tasks[Len(tasks)].num_of_tiles - 1
          /\ StepAfter(job, StepOf(tasks[Len(tasks)])).time_step >= job.t_stop

PartitionTuples(tasks) ==
    [i \in 1..Len(tasks) |->
        <<tasks[i].chunk_x, tasks[i].chunk_y, tasks[i].chunk_z,
          tasks[i].num_of_tiles, tasks[i].tile, tasks[i].time_step>>]

\* C25: the partition does not depend on tile_size_z or tile_size_t: the run
\* over a job that differs from the first only in tile_size_z and tile_size_t
\* gives the same sequence of (chunk_x, chunk_y, chunk_z, tiles_in_chunk,
\* tile index, time_step) tuples; whatever these tile sizes are, the chunks
\* start 16 planes apart and have at most 16 tiles, and every time step from
\* t_start to t_stop-1 has tasks.
C25_IndependentOfTileSizeZT ==
    /\ [][(ppc = "done" /\ ppc' = "again") =>
             PartitionTuples(ptasks') = PartitionTuples(ptasks)]_vars
    /\ [](ppc \in {"done", "again"} =>
            /\ \A i \in 1..Len(ptasks) :
                  /\ (ptasks[i].z - pjob.z_start) % 16 = 0
                  /\ ptasks[i].num_of_tiles = Min(16, pjob.z_stop - ptasks[i].z)
            /\ Len(ptasks) > 0 =>
                  {ptasks[i].time_step : i \in 1..Len(ptasks)} = pjob.t_start..(pjob.t_stop - 1))

\* the second run was over a job with tile_size_z = 8 and tile_size_t = 2,
\* two time steps and three chunks along z
C25_Witness ==
    /\ ppc = "again"
    /\ pjob.tile_size_z = 8 /\ pjob.tile_size_t = 2
    /\ pjob.t_stop - pjob.t_start = 2
    /\ pjob.z_stop - pjob.z_start = 36
    /\ Len(ptasks) >= 2 * 36

\* the (chunk_x, chunk_y, chunk_z, time_step) tuples of a sequence of tasks
ChunkTuplesOf(tasks) ==
    {<<tasks[i].chunk_x, tasks[i].chunk_y, tasks[i].chunk_z, tasks[i].time_step>> :
        i \in 1..Len(tasks)}

\* C26: for every extent with start <= stop on each axis and tile sizes > 0,
\* negative starts included, chunk_x, chunk_y and chunk_z are the floor
\* division of x by tile_size_x, of y by tile_size_y and of z by 16, so the
\* distinct (time_step, z, y, x) iteration steps of one job give pairwise
\* distinct (chunk_x, chunk_y, chunk_z, time_step) tuples and distinct chunk keys.
C26_FloorDivisionDistinctChunks ==
    ppc = "done" =>
        /\ \A i \in 1..Len(ptasks) :
              /\ ptasks[i].chunk_x = ptasks[i].x \div pjob.tile_size_x
              /\ ptasks[i].chunk_y = ptasks[i].y \div pjob.tile_size_y
              /\ ptasks[i].chunk_z = ptasks[i].z \div 16
        /\ Cardinality(ChunkTuplesOf(ptasks)) = Cardinality(StepsOf(ptasks))
        /\ Cardinality(ChunkKeysOf(ptasks)) = Cardinality(StepsOf(ptasks))

\* the part of C26 the code meets: C26 for the jobs whose x, y and z ranges do
\* not start below zero
C26_NonNegativeStart ==
    (ppc = "done" /\ pjob.x_start >= 0 /\ pjob.y_start >= 0 /\ pjob.z_start >= 0) =>
        /\ \A i \in 1..Len(ptasks) :
              /\ ptasks[i].chunk_x = ptasks[i].x \div pjob.tile_size_x
              /\ ptasks[i].chunk_y = ptasks[i].y \div pjob.tile_size_y
              /\ ptasks[i].chunk_z = ptasks[i].z \div 16
        /\ Cardinality(ChunkTuplesOf(ptasks)) = Cardinality(StepsOf(ptasks))
        /\ Cardinality(ChunkKeysOf(ptasks)) = Cardinality(StepsOf(ptasks))

\* what the code computes: the quotient truncated toward zero, which is the
\* floor for x >= 0 and the ceiling for x < 0
C26_TruncatedDivision ==
    ppc = "done" =>
        \A i \in 1..Len(ptasks) :
            /\ ptasks[i].chunk_x =
                  IF ptasks[i].x >= 0 THEN ptasks[i].x \div pjob.tile_size_x
                  ELSE 0 - ((0 - ptasks[i].x) \div pjob.tile_size_x)
            /\ ptasks[i].chunk_z =
                  IF ptasks[i].z >= 0 THEN ptasks[i].z \div 16
                  ELSE 0 - ((0 - ptasks[i].z) \div 16)

\* the (iteration step, tile index) pairs of a sequence of tasks
SentTasksOf(tasks) ==
    {<<tasks[i].time_step, tasks[i].z, tasks[i].y, tasks[i].x, tasks[i].tile>> :
        i \in 1..Len(tasks)}

\* C27: one run of generate_upload_tasks over a job with start <= stop on each
\* axis and tile sizes > 0 publishes exactly
\* (t_stop - t_start) * ceil((y_stop - y_start) / tile_size_y)
\*   * ceil((x_stop - x_start) / tile_size_x) * (z_stop - z_start)
\* messages, each task once; an x or y range that is no multiple of the tile
\* size gets one more tile position for the remainder, and a job with an empty
\* range on any axis publishes nothing.
C27_MessageCount ==
    ppc = "done" =>
        /\ Len(ptasks) =
              (pjob.t_stop - pjob.t_start)
                * CeilDiv(pjob.y_stop - pjob.y_start, pjob.tile_size_y)
                * CeilDiv(pjob.x_stop - pjob.x_start, pjob.tile_size_x)
                * (pjob.z_stop - pjob.z_start)
        /\ Cardinality(SentTasksOf(ptasks)) = Len(ptasks)
        /\ (ptasks # <<>> /\ (pjob.x_stop - pjob.x_start) % pjob.tile_size_x # 0) =>
              Cardinality({ptasks[i].x : i \in 1..Len(ptasks)}) =
                  ((pjob.x_stop - pjob.x_start) \div pjob.tile_size_x) + 1
        /\ (ptasks # <<>> /\ (pjob.y_stop - pjob.y_start) % pjob.tile_size_y # 0) =>
              Cardinality({ptasks[i].y : i \in 1..Len(ptasks)}) =
                  ((pjob.y_stop - pjob.y_start) \div pjob.tile_size_y) + 1
        /\ (\/ pjob.t_start = pjob.t_stop \/ pjob.z_start = pjob.z_stop
            \/ pjob.y_start = pjob.y_stop \/ pjob.x_start = pjob.x_stop) => ptasks = <<>>

\* a run over x[-1,4) with tile_size_x 2 (three tile columns, the last for the
\* remainder), y[0,65) with tile_size_y 64 (two tile rows), z[8,28) (a chunk
\* of 16 tiles and one of 4) and two time steps has published 2*2*3*20 messages
C27_Witness ==
    /\ ppc = "done"
    /\ pjob.x_start = -1 /\ pjob.x_stop = 4 /\ pjob.tile_size_x = 2
    /\ pjob.y_stop = 65
    /\ pjob.z_start = 8 /\ pjob.z_stop = 28
    /\ pjob.t_stop - pjob.t_start = 2
    /\ Len(ptasks) = 240

(***************************************************************************)
(* Properties of direct generate_upload_tasks calls (checked under SpecGen)*)
(***************************************************************************)

\* C28: every task message published by generate_upload_tasks, inside
\* setup_ingest or in a direct call on a new or a used IngestManager, is in
\* the upload queue of the job its job_id field names and in no other job's
\* queue.
C28_SentToOwnQueue ==
    \A j \in JobIds : \A n \in 1..Len(upq[j].msgs) : upq[j].msgs[n].job_id = j

\* what the code does: a message goes to the upload queue of the project the
\* manager holds in self.nd_proj, whatever job the message names
C28_SentToNdProj ==
    [][\A j \in JobIds :
          Len(upq'[j].msgs) > Len(upq[j].msgs) => j = mgr.nd_proj]_vars

\* the part of C28 the code meets: a direct call on a new IngestManager
\* publishes nothing
C28_FreshManagerPublishesNothing ==
    [][\A p \in Procs :
          (kind[p] = "generate" /\ mgr.nd_proj = 0) => upq' = upq]_vars

(***************************************************************************)
(* Properties of overlapping requests (checked under SpecConc).            *)
(***************************************************************************)

\* request p is the setup_ingest that created job j: the job did not exist
\* when p began and no other job has been created since
CreatedBy(p, j) ==
    /\ kind[p] = "setup"
    /\ jobs[j].exists
    /\ ~pre[p][1].jobs[j].exists
    /\ \A i \in JobIds : (i # j /\ jobs[i].exists) => pre[p][1].jobs[i].exists

\* request q is a delete_ingest_job of job j that has run to completion
DeleteCompleted(q, j) ==
    kind[q] = "delete" /\ pc[q] = "done" /\ res[q] = "ok" /\ arg[q].job_id = j

\* request p takes the last step of its setup_ingest: the final save
FinalSave(p) == kind[p] = "setup" /\ pc[p] = "su_save" /\ pc'[p] = "done"

\* C29: if a delete_ingest_job of job J has run to completion while the
\* setup_ingest of J was between the creation of the job row and its final
\* save, then once the setup_ingest has finished too the persisted status of
\* J is Deleted and J has no queue and no credentials.
C29_DeleteDuringSetup ==
    [][\A p \in Procs : \A q \in Procs : \A j \in JobIds :
          (FinalSave(p) /\ CreatedBy(p, j) /\ DeleteCompleted(q, j)) =>
              /\ jobs'[j].status = STATUS_DELETED
              /\ ~upq'[j].exists
              /\ ~inq'[j]
              /\ \A c \in creds' : c.job_id # j]_vars

\* what the code does: the final save of setup_ingest writes status Active
\* over the Deleted that delete_ingest_job had saved
C29_FinalSaveOverwrites ==
    [][\A p \in Procs : \A q \in Procs : \A j \in JobIds :
          (FinalSave(p) /\ CreatedBy(p, j) /\ DeleteCompleted(q, j) /\ mgr.job = j) =>
              /\ jobs[j].status = STATUS_DELETED
              /\ jobs'[j].status = STATUS_ACTIVE]_vars

\* every task message is in the upload queue of the job it names
OwnQueueOnly ==
    \A j \in JobIds : \A n \in 1..Len(upq[j].msgs) : upq[j].msgs[n].job_id = j

\* the queue references recorded on a job, on its object and in its row, are
\* references of its own queues
OwnReferencesOnly ==
    \A j \in JobIds :
        /\ memjob[j].upload_queue \in {NoQueue, UploadUrl(j)}
        /\ memjob[j].ingest_queue \in {NoQueue, IngestUrl(j)}
        /\ jobs[j].upload_queue \in {NoQueue, UploadUrl(j)}
        /\ jobs[j].ingest_queue \in {NoQueue, IngestUrl(j)}

\* the policy made for a job names the upload queue of that job
OwnPolicyOnly == \A x \in policies : x.queue = x.job_id

\* a job that is Active and whose deletion was never requested has its queues
\* and its credentials: no other invocation has removed them, and the status
\* was recorded on the job that was provisioned
ActiveJobsIntact ==
    \A j \in JobIds :
        (jobs[j].exists /\ jobs[j].status = STATUS_ACTIVE /\ j \notin hist.deleting) =>
            /\ upq[j].exists
            /\ inq[j]
            /\ CredentialsIssued(j)

\* C30: two invocations for different jobs (setup_ingest with setup_ingest,
\* or setup_ingest with delete_ingest_job) interleaved on the same
\* IngestManager instance do not interfere: tasks are published only to the
\* queue of their own job, queue references and status are recorded only on
\* the invocation's own job, and only the own job's queues and credentials
\* are created or deleted.
C30_NoInterference ==
    /\ OwnQueueOnly
    /\ OwnReferencesOnly
    /\ OwnPolicyOnly
    /\ ActiveJobsIntact

\* the first of the four parts of C30, on its own
C30_OwnQueueOnly == OwnQueueOnly

\* the second part of C30, on its own
C30_OwnReferencesOnly == OwnReferencesOnly

\* the third part of C30, on its own
C30_OwnPolicyOnly == OwnPolicyOnly

\* the fourth part of C30, on its own
C30_ActiveJobsIntact == ActiveJobsIntact

====
